---- MODULE Spec2Model ----
(***************************************************************************)
(* A model of tylertreat/bench: Benchmark.Run, the connection runners it   *)
(* drives and the Summary it merges.                                       *)
(*                                                                         *)
(* The repository holds two builds of the multi-connection engine:         *)
(*   - src/bench.go + src/summary.go:1-89      the "fatal" error policy:   *)
(*     a failed request ends the runner's loop;                            *)
(*   - src/unnamed/part_001:1-278 + src/summary.go:91-201  the "tracked"   *)
(*     policy: a failed request is recorded and counted.                   *)
(* Benchmark.Run, NewBenchmark, run, setup, teardown are the same in both; *)
(* the variable policy says which build a behaviour is of.  In the fatal   *)
(* build the fields totalRequests / histogram / uncorrectedHistogram are   *)
(* held in successTotal / successHistogram / uncorrectedSuccessHistogram   *)
(* and the error fields stay zero / empty.                                 *)
(*                                                                         *)
(* Time is counted in ticks.  Every runner has a clock of its own, clk[i], *)
(* that starts at 0 when the runner calls time.After(duration): a runner   *)
(* only ever compares instants of its own clock.                           *)
(***************************************************************************)
EXTENDS Integers, Sequences, FiniteSets, TLC

\* ---- bounds of the model
MaxRate == 3            \* the requestRate argument ranges over 0..MaxRate
MaxDuration == 3        \* the duration argument ranges over 1..MaxDuration ticks
MaxLatency == 3         \* one request takes 1..MaxLatency ticks
MaxSkew == 1            \* ticks that may pass between time.After and time.Now
MaxRecorded == 5        \* a recorder looked at on its own holds values 0..MaxRecorded
MaxSamples == 2         \* and at most MaxSamples samples before the call
MaxInterval == 3        \* RecordCorrectedValue's interval ranges over 0..MaxInterval
MaxRuns == 2            \* Run calls on one single-connection Benchmark

\* ---- program constants, scaled to ticks
maxRecordableLatencyNS == 2   \* src/bench.go:14 (300000000000 ns)
OneSecondNS == 4              \* src/bench.go:147 (1000000000 ns)

VARIABLES
    policy,          \* "fatal" (src/bench.go) or "tracked" (src/unnamed/part_001)
    argRate,         \* NewBenchmark's requestRate argument
    argConnections,  \* NewBenchmark's connections argument
    connections,     \* Benchmark.connections
    requestRate,     \* connectionBenchmark.requestRate, per runner
    expectedInterval,\* connectionBenchmark.expectedInterval, per runner
    duration,        \* connectionBenchmark.duration
    successTotal,    \* connectionBenchmark.successTotal (fatal: totalRequests)
    errorTotal,      \* connectionBenchmark.errorTotal
    elapsed,         \* connectionBenchmark.elapsed
    hist,            \* the runner's four recorders
    orchPC,          \* where Benchmark.Run is
    idx,             \* the index of Run's current loop
    startClosed,     \* the start channel has been closed
    closeCount,      \* how many times the start channel was closed
    results,         \* the results channel (capacity connections)
    wg,              \* the WaitGroup's counter
    summary,         \* Run's local summary
    ret,             \* what Run returned
    wpc,             \* where each worker goroutine is
    clk,             \* the runner's clock
    startT,          \* run*'s local start
    before,          \* run*'s local before
    runErr,          \* the error run* returned
    issued,          \* history: requests the runner has issued
    setupLog,        \* history: runners whose setup was called, in order
    teardownLog,     \* history: runners whose teardown was called, in order
    received,        \* history: results Run has taken from the channel
    deposited,       \* history: results the worker has put on the channel
    raised,          \* history: the errors setup, run and teardown have returned
    setupOk,         \* history: runners whose requester.Setup() returned nil
    failedReqs,      \* history: per runner, the requests that returned an error
    latency,         \* run*'s local latency
    teardownOk,      \* history: runners whose requester.Teardown() returned nil
    getRequesterLog, \* history: the arguments of NewBenchmark's GetRequester calls
    requester,       \* connectionBenchmark.requester: the call that returned it
    rerun,           \* the caller has called Run a second time
    prevIssued,      \* history: the requests issued during the earlier Run
    factory,         \* the RequesterFactory given to NewBenchmark
    instance,        \* per runner, the Requester object GetRequester returned
    rec,             \* a recorder call on its own: its arguments and its result
    single,          \* the Benchmark of the single-connection build and its caller
    files            \* what GenerateLatencyDistribution left on disk and returned

vars == <<policy, argRate, argConnections, connections, requestRate,
          expectedInterval, duration, successTotal, errorTotal, elapsed, hist,
          orchPC, idx, startClosed, closeCount, results, wg, summary, ret,
          wpc, clk, startT, before, runErr, issued, setupLog, teardownLog,
          received, deposited, raised, setupOk, failedReqs, latency,
          teardownOk, getRequesterLog, requester, rerun, prevIssued, factory,
          instance, rec, single, files>>

config == <<policy, argRate, argConnections, connections, requestRate,
            expectedInterval, duration, getRequesterLog, requester, rerun,
            prevIssued, factory, instance, rec, single, files>>
runnerVars == <<successTotal, errorTotal, elapsed, hist>>
clockVars == <<clk, startT, before>>

Policies == {"fatal", "tracked"}
\* NewBenchmark's connections argument: the default, one runner, two concurrent runners
ConnectionArgs == {0, 1, 2}
Latencies == 1..MaxLatency
HistValues == 0..maxRecordableLatencyNS
Runners == 0..(connections - 1)

NoErr == <<"nil">>
NilSummary == [nil |-> TRUE]

Max(a, b) == IF a >= b THEN a ELSE b

RECURSIVE SumTo(_, _)
\* f[0] + ... + f[n-1]
SumTo(f, n) == IF n = 0 THEN 0 ELSE f[n - 1] + SumTo(f, n - 1)

RECURSIVE MaxTo(_, _)
\* the largest of f[0], ..., f[n-1] (0 when there is none)
MaxTo(f, n) == IF n = 0 THEN 0 ELSE Max(f[n - 1], MaxTo(f, n - 1))

\* ---- the recorder (github.com/codahale/hdrhistogram)
EmptyHistogram == [v \in HistValues |-> 0]

\* a recorder is a function from the values 0..N of its range to their counts
TotalCount(h) == SumTo(h, Cardinality(DOMAIN h))

RecordValueFails(v) == v > maxRecordableLatencyNS

RecordValue(h, v) == [h EXCEPT ![v] = @ + 1]

\* one synthesized sample at most
RecordMissingOnce(h, missing, interval) ==
    IF missing >= interval THEN RecordValue(h, missing) ELSE h

RECURSIVE RecordMissingAbove(_, _, _)
\* the synthesized samples stop above the interval
RecordMissingAbove(h, missing, interval) ==
    IF missing > interval
    THEN RecordMissingAbove(RecordValue(h, missing), missing - interval, interval)
    ELSE h

RECURSIVE RecordMissing(_, _, _)
RecordMissing(h, missing, interval) ==
    IF missing >= interval
    THEN RecordMissing(RecordValue(h, missing), missing - interval, interval)
    ELSE h

\* the synthesized samples start at v, not at v - interval
RecordCorrectedValueFromValue(h, v, interval) ==
    IF interval <= 0 \/ v < interval
    THEN RecordValue(h, v)
    ELSE RecordMissing(RecordValue(h, v), v, interval)

RecordCorrectedValue(h, v, interval) ==
    IF interval <= 0 \/ v <= interval
    THEN RecordValue(h, v)
    ELSE RecordMissing(RecordValue(h, v), v - interval, interval)

\* a merge that keeps the larger count of each value
HistogramMergeMax(h, o) == [v \in DOMAIN h |-> Max(h[v], o[v])]

HistogramMerge(h, o) == [v \in DOMAIN h |-> h[v] + o[v]]

EmptyRecorders ==
    [successHistogram            |-> EmptyHistogram,
     uncorrectedSuccessHistogram |-> EmptyHistogram,
     errorHistogram              |-> EmptyHistogram,
     uncorrectedErrorHistogram   |-> EmptyHistogram]

\* ---- NewBenchmark
effectiveConnections(c) == IF c = 0 THEN 1 ELSE c

\* every runner given the whole requestRate
perConnectionRateWhole(r, n) == r

perConnectionRate(r, n) == r \div n

\* an interval that is rounded up
newIntervalCeiling(rate) ==
    IF rate > 0 THEN (OneSecondNS + rate - 1) \div rate ELSE 0

newInterval(rate) == IF rate > 0 THEN OneSecondNS \div rate ELSE 0

\* the GetRequester calls numbered from the last runner down
getRequesterArgsDescending(n) == [k \in 1..n |-> n - k]

\* for i := 0; i < connections; i++: factory.GetRequester(i), in this order
getRequesterArgs(n) == [k \in 1..n |-> k - 1]

\* the call of the loop's pass i, counted from 1
getRequesterCall(i) == i + 1

\* no Benchmark of the single-connection build exists
NoSingle == [pc |-> "none"]
\* GenerateLatencyDistribution has not been called
NoFiles == [called |-> FALSE]

\* no recorder call is looked at on its own
NoRecorderCall == [op |-> "none"]

\* the factories: "new" returns a new Requester on every call and stands for
\* the web, redis, kafka, nats, nsq, amqp and cassandra factories, whose
\* requesters may fail; "noop" is NOOPRequesterFactory
Factories == {"new", "noop"}

\* the Requester object that the GetRequester call numbered call returns:
\* a new object, or the package variable instance that once.Do sets
GetRequester(f, call) == IF f = "noop" THEN getRequesterCall(0) ELSE call

\* what Setup, Request and Teardown of the factory's requesters may return:
\* noopRequester's methods return nil
requesterOutcomes(f) == IF f = "noop" THEN {TRUE} ELSE BOOLEAN

\* NewBenchmark(factory, requestRate, connections, duration) has returned,
\* requestRate being one of rates
InitWith(rates) ==
    /\ policy \in Policies
    /\ argRate \in rates
    /\ argConnections \in ConnectionArgs
    /\ duration \in 1..MaxDuration
    /\ connections = effectiveConnections(argConnections)
    /\ requestRate = [i \in 0..(connections - 1) |->
                         perConnectionRate(argRate, connections)]
    /\ expectedInterval = [i \in 0..(connections - 1) |->
                              newInterval(requestRate[i])]
    /\ successTotal = [i \in 0..(connections - 1) |-> 0]
    /\ errorTotal = [i \in 0..(connections - 1) |-> 0]
    /\ elapsed = [i \in 0..(connections - 1) |-> 0]
    /\ hist = [i \in 0..(connections - 1) |-> EmptyRecorders]
    /\ orchPC = "setup"
    /\ idx = 0
    /\ startClosed = FALSE
    /\ closeCount = 0
    /\ results = <<>>
    /\ wg = 0
    /\ summary = NilSummary
    /\ ret = [returned |-> FALSE, summary |-> NilSummary, err |-> NoErr]
    /\ wpc = [i \in 0..(connections - 1) |-> "idle"]
    /\ clk = [i \in 0..(connections - 1) |-> 0]
    /\ startT = [i \in 0..(connections - 1) |-> 0]
    /\ before = [i \in 0..(connections - 1) |-> 0]
    /\ runErr = [i \in 0..(connections - 1) |-> NoErr]
    /\ issued = [i \in 0..(connections - 1) |-> 0]
    /\ setupLog = <<>>
    /\ teardownLog = <<>>
    /\ received = 0
    /\ deposited = [i \in 0..(connections - 1) |-> 0]
    /\ raised = {}
    /\ setupOk = {}
    /\ failedReqs = [i \in 0..(connections - 1) |-> 0]
    /\ latency = [i \in 0..(connections - 1) |-> 0]
    /\ teardownOk = {}
    /\ getRequesterLog = getRequesterArgs(connections)
    /\ requester = [i \in 0..(connections - 1) |-> getRequesterCall(i)]
    /\ rerun = FALSE
    /\ prevIssued = 0
    /\ rec = NoRecorderCall
    /\ single = NoSingle
    /\ files = NoFiles
    /\ factory \in Factories
    /\ instance = [i \in 0..(connections - 1) |->
                       GetRequester(factory, getRequesterCall(i))]

Init == InitWith(0..MaxRate)

\* ---- connectionBenchmark
\* a setup that resets nothing
resetRunnerNothing(i) == UNCHANGED <<hist, successTotal, errorTotal, elapsed>>

\* setup's resets; requester.Setup() itself is SetupReturn
resetRunner(i) ==
    /\ hist' = [hist EXCEPT ![i] = EmptyRecorders]
    /\ successTotal' = [successTotal EXCEPT ![i] = 0]
    /\ errorTotal' = [errorTotal EXCEPT ![i] = 0]
    /\ UNCHANGED elapsed

\* ---- float64 quotients of counts, without rounding
RECURSIVE gcd(_, _)
gcd(a, b) == IF b = 0 THEN a ELSE gcd(b, a % b)

NaN == [num |-> 0, den |-> 0]
Inf == [num |-> 1, den |-> 0]

\* float64(n) / d for n, d >= 0, in lowest terms: n/0 is +Inf, 0/0 is NaN
quotient(n, d) ==
    LET g == gcd(n, d)
    IN  IF g = 0 THEN NaN ELSE [num |-> n \div g, den |-> d \div g]

\* a + b in float64: NaN absorbs everything, +Inf every number
addFloat(a, b) ==
    IF a = NaN \/ b = NaN THEN NaN
    ELSE IF a = Inf \/ b = Inf THEN Inf
    ELSE quotient(a.num * b.den + b.num * a.den, a.den * b.den)

\* float64(total) / elapsed.Seconds(), elapsed being in ticks
perSecond(total, elapsedTicks) == quotient(total * OneSecondNS, elapsedTicks)

summarize(i) ==
    [Connections                 |-> 0,
     RequestRate                 |-> requestRate[i],
     SuccessTotal                |-> successTotal[i],
     ErrorTotal                  |-> errorTotal[i],
     TimeElapsed                 |-> elapsed[i],
     SuccessHistogram            |-> hist[i].successHistogram,
     UncorrectedSuccessHistogram |-> hist[i].uncorrectedSuccessHistogram,
     ErrorHistogram              |-> hist[i].errorHistogram,
     UncorrectedErrorHistogram   |-> hist[i].uncorrectedErrorHistogram,
     Throughput                  |-> perSecond(successTotal[i] + errorTotal[i], elapsed[i])]

\* run's result: the summary is built whether or not the loop failed
runResult(i) == [err |-> runErr[i], summary |-> summarize(i)]

\* ---- Summary.merge
\* s.TimeElapsed = o.TimeElapsed, whichever is larger
mergeElapsedOther(s, o) == o

mergeElapsed(s, o) == IF o > s THEN o ELSE s

\* s.TotalRequests = o.TotalRequests
mergeTotalOther(s, o) == o

mergeTotal(s, o) == s + o

\* merge without s.RequestRate += o.RequestRate
mergeRateKept(s, o) == s

mergeRate(s, o) == s + o

\* merge without s.Throughput += o.Throughput
mergeThroughputKept(s, o) == s

\* s.Throughput += o.Throughput
mergeThroughput(s, o) == addFloat(s, o)

merge(s, o) ==
    [Connections                 |-> s.Connections,
     RequestRate                 |-> mergeRate(s.RequestRate, o.RequestRate),
     SuccessTotal                |-> mergeTotal(s.SuccessTotal, o.SuccessTotal),
     ErrorTotal                  |-> mergeTotal(s.ErrorTotal, o.ErrorTotal),
     TimeElapsed                 |-> mergeElapsed(s.TimeElapsed, o.TimeElapsed),
     SuccessHistogram            |-> HistogramMerge(s.SuccessHistogram, o.SuccessHistogram),
     UncorrectedSuccessHistogram |-> HistogramMerge(s.UncorrectedSuccessHistogram,
                                                    o.UncorrectedSuccessHistogram),
     ErrorHistogram              |-> HistogramMerge(s.ErrorHistogram, o.ErrorHistogram),
     UncorrectedErrorHistogram   |-> HistogramMerge(s.UncorrectedErrorHistogram,
                                                    o.UncorrectedErrorHistogram),
     Throughput                  |-> mergeThroughput(s.Throughput, o.Throughput)]

\* ---- the worker goroutine of Benchmark.Run and the loops it runs
orchVars == <<orchPC, idx, closeCount, summary, ret, setupLog, teardownLog, received,
              setupOk, teardownOk>>

\* a worker that does not wait for the start channel
gateOpenAlways == TRUE

\* <-start returns once the channel is closed; run() begins: time.After, time.Now
gateOpen == startClosed

WorkerStart(i) ==
    /\ wpc[i] = "gate"
    /\ gateOpen
    /\ \E skew \in 0..MaxSkew :
          /\ startT' = [startT EXCEPT ![i] = skew]
          /\ clk' = [clk EXCEPT ![i] = skew]
    /\ wpc' = [wpc EXCEPT ![i] = "loop"]
    /\ UNCHANGED <<config, runnerVars, orchVars, startClosed, results, wg,
                   before, runErr, issued, deposited, raised, failedReqs, latency>>

\* a timer that fires one tick after the duration
stopFiredLate(i) == clk[i] > duration

\* a stop channel that is ready from the first iteration on
stopFiredAlways(i) == TRUE

\* a timer that fires one tick before the duration has passed
stopFiredEarly(i) == clk[i] + 1 >= duration

\* the timer of time.After(duration), started at tick 0 of the runner's clock
stopFired(i) == clk[i] >= duration

\* the select at the head of the loop
LoopCheck(i) ==
    /\ wpc[i] = "loop"
    /\ IF stopFired(i)
       THEN /\ elapsed' = [elapsed EXCEPT ![i] = clk[i] - startT[i]]
            /\ runErr' = [runErr EXCEPT ![i] = NoErr]
            /\ wpc' = [wpc EXCEPT ![i] = "send"]
            /\ UNCHANGED <<before, issued>>
       ELSE /\ before' = [before EXCEPT ![i] = clk[i]]
            /\ issued' = [issued EXCEPT ![i] = @ + 1]
            /\ wpc' = [wpc EXCEPT ![i] = "req"]
            /\ UNCHANGED <<elapsed, runErr>>
    /\ UNCHANGED <<config, successTotal, errorTotal, hist, orchVars, startClosed,
                   results, wg, clk, startT, deposited, raised, failedReqs, latency>>

\* the fatal build's early return in both builds
requestErrorAlwaysFatal == TRUE

\* the tracked build's recording in both builds
requestErrorNeverFatal == FALSE

\* a failed request ends the loop (src/bench.go) or is recorded (part_001)
requestErrorIsFatal == policy = "fatal"

\* a loop that counts the request before it returns the error
loopFailsCounted(i, e) ==
    /\ elapsed' = [elapsed EXCEPT ![i] = 0]
    /\ runErr' = [runErr EXCEPT ![i] = e]
    /\ raised' = raised \cup {e}
    /\ wpc' = [wpc EXCEPT ![i] = "send"]
    /\ successTotal' = [successTotal EXCEPT ![i] = @ + 1]
    /\ UNCHANGED <<errorTotal, hist>>

\* return 0, err
loopFails(i, e) ==
    /\ elapsed' = [elapsed EXCEPT ![i] = 0]
    /\ runErr' = [runErr EXCEPT ![i] = e]
    /\ raised' = raised \cup {e}
    /\ wpc' = [wpc EXCEPT ![i] = "send"]
    /\ UNCHANGED <<successTotal, errorTotal, hist>>

\* a busy spin after every request, in the unthrottled loop too
afterRecordSpin(i) == "spin"

\* runFullThrottle goes back to the select, runRateLimited to its busy spin
afterRecord(i) == IF requestRate[i] = 0 THEN "loop" ELSE "spin"

\* a request that is recorded but not counted
countRequestSkipped(n) == n

\* c.successTotal++, c.errorTotal++ (src/bench.go: c.totalRequests++)
countRequest(n) == n + 1

recordSuccess(i, l) ==
    /\ hist' = [hist EXCEPT ![i] =
          IF requestRate[i] = 0
          THEN [@ EXCEPT !.successHistogram = RecordValue(@, l)]
          ELSE [@ EXCEPT !.successHistogram =
                            RecordCorrectedValue(@, l, expectedInterval[i]),
                         !.uncorrectedSuccessHistogram = RecordValue(@, l)]]
    /\ successTotal' = [successTotal EXCEPT ![i] = countRequest(@)]
    /\ wpc' = [wpc EXCEPT ![i] = afterRecord(i)]
    /\ UNCHANGED <<errorTotal, elapsed, runErr, raised>>

recordError(i, l) ==
    /\ hist' = [hist EXCEPT ![i] =
          IF requestRate[i] = 0
          THEN [@ EXCEPT !.errorHistogram = RecordValue(@, l)]
          ELSE [@ EXCEPT !.errorHistogram =
                            RecordCorrectedValue(@, l, expectedInterval[i]),
                         !.uncorrectedErrorHistogram = RecordValue(@, l)]]
    /\ errorTotal' = [errorTotal EXCEPT ![i] = countRequest(@)]
    /\ wpc' = [wpc EXCEPT ![i] = afterRecord(i)]
    /\ UNCHANGED <<successTotal, elapsed, runErr, raised>>

\* requester.Request() returns after l ticks; the body of the loop up to the spin
RequestReturn(i) ==
    /\ wpc[i] = "req"
    /\ \E l \in Latencies, ok \in requesterOutcomes(factory) :
          /\ clk' = [clk EXCEPT ![i] = @ + l]
          /\ latency' = IF ~ok /\ requestErrorIsFatal
                         THEN latency
                         ELSE [latency EXCEPT ![i] = l]
          /\ failedReqs' = [failedReqs EXCEPT ![i] = IF ok THEN @ ELSE @ + 1]
          /\ IF ~ok /\ requestErrorIsFatal
             THEN loopFails(i, <<"request", i>>)
             ELSE IF RecordValueFails(l)
                  THEN loopFails(i, <<"range", i>>)
                  ELSE IF ok THEN recordSuccess(i, l) ELSE recordError(i, l)
    /\ UNCHANGED <<config, orchVars, startClosed, results, wg, startT, before,
                   issued, deposited>>

\* a spin that ends at once
spinUntilNow(i) == clk[i]

\* the instant at which the busy spin ends
spinUntil(i) == Max(clk[i], before[i] + expectedInterval[i])

\* for c.expectedInterval > time.Now().Sub(before) {}
Spin(i) ==
    /\ wpc[i] = "spin"
    /\ clk' = [clk EXCEPT ![i] = spinUntil(i)]
    /\ wpc' = [wpc EXCEPT ![i] = "loop"]
    /\ UNCHANGED <<config, runnerVars, orchVars, startClosed, results, wg,
                   startT, before, runErr, issued, deposited, raised, failedReqs, latency>>

\* make(chan *result, b.connections-1)
resultsCapOneShort == connections - 1

resultsCap == connections

\* results <- b.run()
Deposit(i) ==
    /\ wpc[i] = "send"
    /\ Len(results) < resultsCap
    /\ results' = Append(results, runResult(i))
    /\ deposited' = [deposited EXCEPT ![i] = @ + 1]
    /\ wpc' = [wpc EXCEPT ![i] = "done"]
    /\ UNCHANGED <<config, runnerVars, orchVars, startClosed, wg, clockVars,
                   runErr, issued, raised, failedReqs, latency>>

WgDone(i) ==
    /\ wpc[i] = "done"
    /\ wg' = wg - 1
    /\ wpc' = [wpc EXCEPT ![i] = "exit"]
    /\ UNCHANGED <<config, runnerVars, orchVars, startClosed, results,
                   clockVars, runErr, issued, deposited, raised, failedReqs, latency>>

\* ---- Benchmark.Run
workerVars == <<clk, startT, before, runErr, issued, deposited, failedReqs, latency>>

\* return summary, err: the partial summary handed out with the error
returnErrWithSummary(e) == [returned |-> TRUE, summary |-> summary, err |-> e]

returnErr(e) == [returned |-> TRUE, summary |-> NilSummary, err |-> e]

returnSummary(s) == [returned |-> TRUE, summary |-> s, err |-> NoErr]

\* benchmark.setup() is entered: the resets, then requester.Setup() is running
SetupCall ==
    /\ orchPC = "setup"
    /\ resetRunner(idx)
    /\ setupLog' = Append(setupLog, idx)
    /\ orchPC' = "insetup"
    /\ UNCHANGED <<config, idx, startClosed, closeCount, results, wg, summary,
                   ret, wpc, workerVars, teardownLog, received, raised, setupOk, teardownOk>>

\* close(start) inside the setup loop
afterSetupCloses(i) == "close"

afterSetup(i) == IF i + 1 < connections THEN "setup" ELSE "close"

\* requester.Setup() returns: return nil, err or wg.Add(1); go func
SetupReturn ==
    /\ orchPC = "insetup"
    /\ \E ok \in requesterOutcomes(factory) :
          IF ~ok
          THEN /\ ret' = returnErr(<<"setup", idx>>)
               /\ raised' = raised \cup {<<"setup", idx>>}
               /\ orchPC' = "returned"
               /\ UNCHANGED <<idx, wg, wpc, setupOk>>
          ELSE /\ setupOk' = setupOk \cup {idx}
               /\ wg' = wg + 1
               /\ wpc' = [wpc EXCEPT ![idx] = "gate"]
               /\ orchPC' = afterSetup(idx)
               /\ idx' = idx + 1
               /\ UNCHANGED <<ret, raised>>
    /\ UNCHANGED <<config, runnerVars, startClosed, closeCount, results,
                   summary, workerVars, setupLog, teardownLog, received,
                   teardownOk>>

\* close(start)
CloseStart ==
    /\ orchPC = "close"
    /\ startClosed' = TRUE
    /\ closeCount' = closeCount + 1
    /\ orchPC' = "wait"
    /\ UNCHANGED <<config, runnerVars, idx, results, wg, summary, ret, wpc,
                   workerVars, setupLog, teardownLog, received, raised, setupOk, teardownOk>>

\* a Wait that returns while goroutines are still running
waitReturnsAtOnce == TRUE

\* wg.Wait() returns when the counter is zero
waitReturns == wg = 0

\* wg.Wait()
WgWait ==
    /\ orchPC = "wait"
    /\ waitReturns
    /\ orchPC' = "teardown"
    /\ idx' = 0
    /\ UNCHANGED <<config, runnerVars, startClosed, closeCount, results, wg,
                   summary, ret, wpc, workerVars, setupLog, teardownLog,
                   received, raised, setupOk, teardownOk>>

TeardownCall ==
    /\ orchPC = "teardown"
    /\ teardownLog' = Append(teardownLog, idx)
    /\ orchPC' = "inteardown"
    /\ UNCHANGED <<config, runnerVars, idx, startClosed, closeCount, results,
                   wg, summary, ret, wpc, workerVars, setupLog, received, raised,
                   setupOk, teardownOk>>

afterTeardown(i) == IF i + 1 < connections THEN "teardown" ELSE "merge"

\* the runner's measurement error returned in place of its teardown's
teardownErrorAfterRun(i) ==
    IF runErr[i] # NoErr THEN runErr[i] ELSE <<"teardown", i>>

\* if err := benchmark.teardown(); err != nil { return nil, err }
teardownError(i) == <<"teardown", i>>

TeardownReturn ==
    /\ orchPC = "inteardown"
    /\ \E ok \in requesterOutcomes(factory) :
          IF ~ok
          THEN /\ ret' = returnErr(teardownError(idx))
               /\ raised' = raised \cup {<<"teardown", idx>>}
               /\ orchPC' = "returned"
               /\ UNCHANGED <<idx, teardownOk>>
          ELSE /\ teardownOk' = teardownOk \cup {idx}
               /\ orchPC' = afterTeardown(idx)
               /\ idx' = IF afterTeardown(idx) = "merge" THEN 0 ELSE idx + 1
               /\ UNCHANGED <<ret, raised>>
    /\ UNCHANGED <<config, runnerVars, startClosed, closeCount, results, wg,
                   summary, wpc, workerVars, setupLog, teardownLog, received, setupOk>>

\* a result whose err is never looked at
resultFailedNever(r) == FALSE

resultFailed(r) == r.err # NoErr

\* result := <-results, the first one and each later one
MergeResult ==
    /\ orchPC = "merge"
    /\ idx < connections
    /\ Len(results) > 0
    /\ LET result == Head(results) IN
          /\ results' = Tail(results)
          /\ received' = received + 1
          /\ IF resultFailed(result)
             THEN /\ ret' = returnErr(result.err)
                  /\ orchPC' = "returned"
                  /\ UNCHANGED <<idx, summary>>
             ELSE /\ summary' = IF idx = 0 THEN result.summary
                                ELSE merge(summary, result.summary)
                  /\ idx' = idx + 1
                  /\ UNCHANGED <<ret, orchPC>>
    /\ UNCHANGED <<config, runnerVars, startClosed, closeCount, wg, wpc,
                   workerVars, setupLog, teardownLog, raised, setupOk, teardownOk>>

\* summary.Connections = b.connections; return summary, nil
MergeDone ==
    /\ orchPC = "merge"
    /\ idx = connections
    /\ ret' = returnSummary([summary EXCEPT !.Connections = connections])
    /\ orchPC' = "returned"
    /\ UNCHANGED <<config, runnerVars, idx, startClosed, closeCount, results,
                   wg, summary, wpc, workerVars, setupLog, teardownLog,
                   received, raised, setupOk, teardownOk>>

Orchestrator ==
    \/ SetupCall
    \/ SetupReturn
    \/ CloseStart
    \/ WgWait
    \/ TeardownCall
    \/ TeardownReturn
    \/ MergeResult
    \/ MergeDone

Worker(i) ==
    \/ WorkerStart(i)
    \/ LoopCheck(i)
    \/ RequestReturn(i)
    \/ Spin(i)
    \/ Deposit(i)
    \/ WgDone(i)

Next == Orchestrator \/ \E i \in Runners : Worker(i)

Spec == Init /\ [][Next]_vars

\* ---- a second Run of the same Benchmark
\* the caller calls Run again once it has returned: Run's locals (the start
\* and results channels, the WaitGroup, the summary) are new, the goroutines of
\* the earlier Run have exited or stay blocked on the earlier start channel,
\* the runners keep their fields
RunAgain ==
    /\ orchPC = "returned"
    /\ ~rerun
    /\ rerun' = TRUE
    /\ prevIssued' = SumTo(issued, connections)
    /\ orchPC' = "setup"
    /\ idx' = 0
    /\ startClosed' = FALSE
    /\ closeCount' = 0
    /\ results' = <<>>
    /\ wg' = 0
    /\ summary' = NilSummary
    /\ ret' = [returned |-> FALSE, summary |-> NilSummary, err |-> NoErr]
    /\ wpc' = [i \in Runners |-> "idle"]
    /\ clk' = [i \in Runners |-> 0]
    /\ startT' = [i \in Runners |-> 0]
    /\ before' = [i \in Runners |-> 0]
    /\ latency' = [i \in Runners |-> 0]
    /\ runErr' = [i \in Runners |-> NoErr]
    /\ issued' = [i \in Runners |-> 0]
    /\ deposited' = [i \in Runners |-> 0]
    /\ failedReqs' = [i \in Runners |-> 0]
    /\ setupLog' = <<>>
    /\ teardownLog' = <<>>
    /\ received' = 0
    /\ raised' = {}
    /\ setupOk' = {}
    /\ teardownOk' = {}
    /\ UNCHANGED <<policy, argRate, argConnections, connections, requestRate,
                   expectedInterval, duration, getRequesterLog, requester,
                   factory, instance, rec, single, files, runnerVars>>

NextRerun == Next \/ RunAgain

\* the durations of the Benchmarks that are Run twice: at most two requests of
\* a runner in sequence in each Run
RerunDurations == {1, 2}

InitRerun == Init /\ duration \in RerunDurations

SpecRerun == InitRerun /\ [][NextRerun]_vars

\* ---- one connection asked for a request per tick, or more
\* rates of one request per nanosecond and above
HighRates == {OneSecondNS, OneSecondNS + 1}

InitHighRate == InitWith(HighRates) /\ argConnections = 1

SpecHighRate == InitHighRate /\ [][Next]_vars

\* ---- Summary.GenerateLatencyDistribution
\* the files the call creates and whether it returns an error: os.Create and
\* the writes of the primary file go well or not, then, when requestRate > 0,
\* those of the file prefixed uncorrected_
generateLatencyDistribution(rate, okPrimary, okTwin) ==
    IF ~okPrimary THEN [called |-> TRUE, written |-> {}, err |-> TRUE]
    ELSE IF rate > 0
    THEN IF okTwin
         THEN [called |-> TRUE, written |-> {"file", "uncorrected_file"}, err |-> FALSE]
         ELSE [called |-> TRUE, written |-> {"file"}, err |-> TRUE]
    ELSE [called |-> TRUE, written |-> {"file"}, err |-> FALSE]

\* the caller of Run calls GenerateLatencyDistribution on the Summary it got
GenerateLatencyDistribution ==
    /\ orchPC = "returned"
    /\ ret.summary # NilSummary
    /\ ~files.called
    /\ \E okPrimary, okTwin \in BOOLEAN :
          files' = generateLatencyDistribution(ret.summary.RequestRate,
                                               okPrimary, okTwin)
    /\ UNCHANGED <<policy, argRate, argConnections, connections, requestRate,
                   expectedInterval, duration, getRequesterLog, requester,
                   rerun, prevIssued, factory, instance, rec, single,
                   runnerVars, orchPC, idx, startClosed, closeCount, results,
                   wg, summary, ret, wpc, clk, startT, before, runErr, issued,
                   setupLog, teardownLog, received, deposited, raised, setupOk,
                   failedReqs, latency, teardownOk>>

NextDistribution == Next \/ GenerateLatencyDistribution

SpecDistribution == Init /\ [][NextDistribution]_vars

\* ---- the recorder's operations, each on its own
\* the recorders a call is made on: at most MaxSamples samples, each of a value
\* in 0..MaxRecorded
RecorderRange == 0..MaxRecorded

EmptyRecorder == [v \in RecorderRange |-> 0]

RecorderInputs ==
    {h \in [RecorderRange -> 0..MaxSamples] : TotalCount(h) <= MaxSamples}

\* the third recorder of a merge of three is empty or holds one sample
ThirdRecorders == {h \in RecorderInputs : TotalCount(h) <= 1}

mainVars == <<policy, argRate, argConnections, connections, requestRate,
              expectedInterval, duration, getRequesterLog, requester, rerun,
              prevIssued, factory, instance, runnerVars, orchPC, idx,
              startClosed, closeCount, results, wg, summary, ret, wpc, clk,
              startT, before, runErr, issued, setupLog, teardownLog, received,
              deposited, raised, setupOk, failedReqs, latency, teardownOk,
              files>>

\* the multi-connection Benchmark as NewBenchmark(factory, 0, 0, d) leaves it
mainAtRest ==
    /\ policy = "fatal"
    /\ argRate = 0
    /\ argConnections = 0
    /\ duration = MaxDuration
    /\ factory = "new"
    /\ files = NoFiles
    /\ connections = effectiveConnections(argConnections)
    /\ requestRate = [i \in 0..(connections - 1) |->
                         perConnectionRate(argRate, connections)]
    /\ expectedInterval = [i \in 0..(connections - 1) |->
                              newInterval(requestRate[i])]
    /\ successTotal = [i \in 0..(connections - 1) |-> 0]
    /\ errorTotal = [i \in 0..(connections - 1) |-> 0]
    /\ elapsed = [i \in 0..(connections - 1) |-> 0]
    /\ hist = [i \in 0..(connections - 1) |-> EmptyRecorders]
    /\ orchPC = "setup"
    /\ idx = 0
    /\ startClosed = FALSE
    /\ closeCount = 0
    /\ results = <<>>
    /\ wg = 0
    /\ summary = NilSummary
    /\ ret = [returned |-> FALSE, summary |-> NilSummary, err |-> NoErr]
    /\ wpc = [i \in 0..(connections - 1) |-> "idle"]
    /\ clk = [i \in 0..(connections - 1) |-> 0]
    /\ startT = [i \in 0..(connections - 1) |-> 0]
    /\ before = [i \in 0..(connections - 1) |-> 0]
    /\ runErr = [i \in 0..(connections - 1) |-> NoErr]
    /\ issued = [i \in 0..(connections - 1) |-> 0]
    /\ setupLog = <<>>
    /\ teardownLog = <<>>
    /\ received = 0
    /\ deposited = [i \in 0..(connections - 1) |-> 0]
    /\ raised = {}
    /\ setupOk = {}
    /\ failedReqs = [i \in 0..(connections - 1) |-> 0]
    /\ latency = [i \in 0..(connections - 1) |-> 0]
    /\ teardownOk = {}
    /\ getRequesterLog = getRequesterArgs(connections)
    /\ requester = [i \in 0..(connections - 1) |-> getRequesterCall(i)]
    /\ rerun = FALSE
    /\ prevIssued = 0
    /\ instance = [i \in 0..(connections - 1) |->
                       GetRequester(factory, getRequesterCall(i))]

\* one call is drawn with its arguments: h.RecordValue(v),
\* h.RecordCorrectedValue(v, interval) or h.Merge(o); p is a third recorder,
\* out is h as the call leaves it.  No Benchmark is run.
InitRecorder ==
    /\ mainAtRest
    /\ single = NoSingle
    /\ \/ \E h \in RecorderInputs, v \in RecorderRange :
             rec = [op |-> "RecordValue", done |-> FALSE, h |-> h, v |-> v,
                    out |-> h]
       \/ \E h \in RecorderInputs, v \in RecorderRange, interval \in 0..MaxInterval :
             rec = [op |-> "RecordCorrectedValue", done |-> FALSE, h |-> h,
                    v |-> v, interval |-> interval, out |-> h]
       \/ \E h \in RecorderInputs, o \in RecorderInputs, q \in ThirdRecorders :
             rec = [op |-> "Merge", done |-> FALSE, h |-> h, o |-> o, p |-> q,
                    out |-> h]

\* h.RecordValue(v)
RecordValueCall ==
    /\ rec.op = "RecordValue"
    /\ ~rec.done
    /\ rec' = [rec EXCEPT !.done = TRUE, !.out = RecordValue(rec.h, rec.v)]
    /\ UNCHANGED <<mainVars, single>>

\* h.RecordCorrectedValue(v, interval)
RecordCorrectedValueCall ==
    /\ rec.op = "RecordCorrectedValue"
    /\ ~rec.done
    /\ rec' = [rec EXCEPT !.done = TRUE,
                          !.out = RecordCorrectedValue(rec.h, rec.v, rec.interval)]
    /\ UNCHANGED <<mainVars, single>>

\* h.Merge(o)
MergeCall ==
    /\ rec.op = "Merge"
    /\ ~rec.done
    /\ rec' = [rec EXCEPT !.done = TRUE, !.out = HistogramMerge(rec.h, rec.o)]
    /\ UNCHANGED <<mainVars, single>>

NextRecorder == RecordValueCall \/ RecordCorrectedValueCall \/ MergeCall

SpecRecorder == InitRecorder /\ [][NextRecorder]_vars

\* ---- runRateLimited on recorders of the range 0..MaxRecorded
\* The loop of one runner whose recorders hold latencies well above its
\* expected interval: rec.good and rec.failed are the pairs of corrected (c) and
\* uncorrected (u) recorders of the two outcomes (the fatal build has only the
\* first), rec.interval is c.expectedInterval.
NoSamples == [c |-> EmptyRecorder, u |-> EmptyRecorder]

\* c.xHistogram.RecordCorrectedValue(latency, interval);
\* c.uncorrectedXHistogram.RecordValue(latency)
recordPair(p, l, interval) ==
    [c |-> RecordCorrectedValue(p.c, l, interval), u |-> RecordValue(p.u, l)]

\* run calls runRateLimited: stop = time.After(duration), start = time.Now()
InitPaced ==
    /\ mainAtRest
    /\ single = NoSingle
    /\ \E p \in Policies, interval \in 0..MaxInterval, d \in 1..MaxDuration,
          skew \in 0..MaxSkew :
          rec = [op       |-> "runRateLimited",
                 pc       |-> "loop",
                 policy   |-> p,
                 interval |-> interval,
                 duration |-> d,
                 clk      |-> skew,
                 start    |-> skew,
                 before   |-> 0,
                 issued   |-> 0,
                 good     |-> NoSamples,
                 failed   |-> NoSamples,
                 elapsed  |-> 0,
                 err      |-> NoErr]

\* the select at the head of the loop
PacedLoopCheck ==
    /\ rec.op = "runRateLimited"
    /\ rec.pc = "loop"
    /\ rec' = IF rec.clk >= rec.duration
              THEN [rec EXCEPT !.pc = "returned", !.elapsed = rec.clk - rec.start]
              ELSE [rec EXCEPT !.pc = "req", !.before = rec.clk, !.issued = @ + 1]
    /\ UNCHANGED <<mainVars, single>>

\* requester.Request() returns after l ticks; the body of the loop up to the spin
PacedRequestReturn ==
    /\ rec.op = "runRateLimited"
    /\ rec.pc = "req"
    /\ \E l \in Latencies, ok \in BOOLEAN :
          rec' =
             IF ~ok /\ rec.policy = "fatal"
             THEN [rec EXCEPT !.pc = "returned", !.clk = @ + l,
                              !.err = <<"request", 0>>]
             ELSE IF l \notin RecorderRange
             THEN [rec EXCEPT !.pc = "returned", !.clk = @ + l,
                              !.err = <<"range", 0>>]
             ELSE IF ok
             THEN [rec EXCEPT !.pc = "spin", !.clk = @ + l,
                              !.good = recordPair(@, l, rec.interval)]
             ELSE [rec EXCEPT !.pc = "spin", !.clk = @ + l,
                              !.failed = recordPair(@, l, rec.interval)]
    /\ UNCHANGED <<mainVars, single>>

\* a spin that lasts one tick less
pacedSpinUntilShort(r) == Max(r.clk, r.before + r.interval - 1)

\* the instant at which the busy spin ends
pacedSpinUntil(r) == Max(r.clk, r.before + r.interval)

\* for c.expectedInterval > time.Now().Sub(before) {}
PacedSpin ==
    /\ rec.op = "runRateLimited"
    /\ rec.pc = "spin"
    /\ rec' = [rec EXCEPT !.pc = "loop", !.clk = pacedSpinUntil(rec)]
    /\ UNCHANGED <<mainVars, single>>

NextPaced == PacedLoopCheck \/ PacedRequestReturn \/ PacedSpin

SpecPaced == InitPaced /\ [][NextPaced]_vars

\* ---- the single-connection build (src/unnamed/part_001:280-495)
\* A hdrhistogram.Histogram is a struct with a counts slice and a totalCount.
\* The Benchmark's fields histogram and uncorrectedHistogram point to one each;
\* single.histogram and single.uncorrectedHistogram are those two structs,
\* their counts being the slices' backing arrays.  setupOk, teardownCalls and
\* teardownErr are history of the current Run: Setup returned nil, the calls of
\* Teardown, and what Teardown returned.
NewHistogram == [counts |-> EmptyHistogram, totalCount |-> 0]

\* h.RecordValue(v), h.RecordCorrectedValue(v, interval) on the struct
recordInto(h, v, interval) ==
    LET counts == RecordCorrectedValue(h.counts, v, interval)
    IN  [counts |-> counts, totalCount |-> TotalCount(counts)]

\* Summary(): Histogram: *b.histogram copies the struct, so the Summary gets
\* its own totalCount and the live recorder's counts slice; taken holds the
\* counts as they were at that instant
SingleSummaryOf(b) ==
    [RequestRate          |-> b.requestRate,
     TotalRequests        |-> b.totalRequests,
     TimeElapsed          |-> b.elapsed,
     Histogram            |-> [totalCount |-> b.histogram.totalCount],
     UncorrectedHistogram |-> [totalCount |-> b.uncorrectedHistogram.totalCount],
     taken                |-> [Histogram            |-> b.histogram.counts,
                               UncorrectedHistogram |-> b.uncorrectedHistogram.counts]]

\* the counts a Summary's histograms show when they are read: the slices they
\* share with the live recorders
sharedCounts(b) ==
    [Histogram            |-> b.histogram.counts,
     UncorrectedHistogram |-> b.uncorrectedHistogram.counts]

\* NewBenchmark(requester, requestRate, duration); the caller holds no Summary
InitSingle ==
    /\ mainAtRest
    /\ rec = NoRecorderCall
    /\ \E r \in 0..MaxRate, d \in 1..MaxDuration :
          single = [pc                   |-> "idle",
                    requestRate          |-> r,
                    duration             |-> d,
                    expectedInterval     |-> newInterval(r),
                    histogram            |-> NewHistogram,
                    uncorrectedHistogram |-> NewHistogram,
                    totalRequests        |-> 0,
                    elapsed              |-> 0,
                    clk                  |-> 0,
                    start                |-> 0,
                    before               |-> 0,
                    err                  |-> NoErr,
                    ret                  |-> NoErr,
                    runs                 |-> 0,
                    setupOk              |-> FALSE,
                    teardownCalls        |-> 0,
                    teardownErr          |-> NoErr,
                    summaries            |-> <<>>]

\* the caller calls Run: the resets, then requester.Setup()
SingleRun ==
    /\ single.pc = "idle"
    /\ single.runs < MaxRuns
    /\ single' = [single EXCEPT !.pc = "insetup",
                                !.runs = @ + 1,
                                !.histogram = NewHistogram,
                                !.uncorrectedHistogram = NewHistogram,
                                !.totalRequests = 0,
                                !.err = NoErr,
                                !.ret = NoErr,
                                !.setupOk = FALSE,
                                !.teardownCalls = 0,
                                !.teardownErr = NoErr]
    /\ UNCHANGED <<mainVars, rec>>

\* requester.Setup() returns: return err, or run* begins
SingleSetupReturn ==
    /\ single.pc = "insetup"
    /\ \E ok \in BOOLEAN, skew \in 0..MaxSkew :
          single' = IF ok
                    THEN [single EXCEPT !.pc = "loop", !.clk = skew, !.start = skew,
                                        !.setupOk = TRUE]
                    ELSE [single EXCEPT !.pc = "idle", !.ret = <<"setup", 0>>]
    /\ UNCHANGED <<mainVars, rec>>

\* the select at the head of the loop
SingleLoopCheck ==
    /\ single.pc = "loop"
    /\ single' = IF single.clk >= single.duration
                 THEN [single EXCEPT !.pc = "inteardown",
                                     !.elapsed = single.clk - single.start,
                                     !.teardownCalls = @ + 1]
                 ELSE [single EXCEPT !.pc = "req", !.before = single.clk]
    /\ UNCHANGED <<mainVars, rec>>

\* requester.Request() returns after l ticks; the body of the loop up to the spin
SingleRequestReturn ==
    /\ single.pc = "req"
    /\ \E l \in Latencies, ok \in BOOLEAN :
          single' =
             IF ~ok \/ RecordValueFails(l)
             THEN [single EXCEPT !.pc = "inteardown",
                                 !.clk = @ + l,
                                 !.elapsed = 0,
                                 !.err = IF ok THEN <<"range", 0>> ELSE <<"request", 0>>,
                                 !.teardownCalls = @ + 1]
             ELSE IF single.requestRate = 0
             THEN [single EXCEPT !.pc = "loop",
                                 !.clk = @ + l,
                                 !.histogram = recordInto(@, l, 0),
                                 !.totalRequests = @ + 1]
             ELSE [single EXCEPT !.pc = "spin",
                                 !.clk = @ + l,
                                 !.histogram = recordInto(@, l, single.expectedInterval),
                                 !.uncorrectedHistogram = recordInto(@, l, 0),
                                 !.totalRequests = @ + 1]
    /\ UNCHANGED <<mainVars, rec>>

\* for b.expectedInterval > time.Now().Sub(before) {}
SingleSpin ==
    /\ single.pc = "spin"
    /\ single' = [single EXCEPT !.pc = "loop",
                                !.clk = Max(@, single.before + single.expectedInterval)]
    /\ UNCHANGED <<mainVars, rec>>

\* the loop's error returned in preference to Teardown's
singleReturnLoopFirst(err, e) == IF err # NoErr THEN err ELSE e

\* if e := b.requester.Teardown(); e != nil { err = e }; return err
singleReturn(err, e) == IF e # NoErr THEN e ELSE err

\* requester.Teardown() returns
SingleTeardownReturn ==
    /\ single.pc = "inteardown"
    /\ \E e \in {NoErr, <<"teardown", 0>>} :
          single' = [single EXCEPT !.pc = "idle",
                                  !.teardownErr = e,
                                  !.ret = singleReturn(single.err, e)]
    /\ UNCHANGED <<mainVars, rec>>

\* the caller calls Summary() after a Run and keeps what it returns
SingleSummary ==
    /\ single.pc = "idle"
    /\ single.runs > Len(single.summaries)
    /\ single' = [single EXCEPT !.summaries = Append(@, SingleSummaryOf(single))]
    /\ UNCHANGED <<mainVars, rec>>

NextSingle ==
    \/ SingleRun
    \/ SingleSetupReturn
    \/ SingleLoopCheck
    \/ SingleRequestReturn
    \/ SingleSpin
    \/ SingleTeardownReturn
    \/ SingleSummary

SpecSingle == InitSingle /\ [][NextSingle]_vars

\* ---- what Benchmark.Run guarantees
hasSummary == ret.summary # NilSummary

allSetupsOk == setupOk = Runners

pastGate(i) == wpc[i] \notin {"idle", "gate"}

\* C1: once Run has returned, it has returned either a Summary and a nil error
\* or a nil Summary and a non-nil error: never both, never neither.
C1_SummaryXorError ==
    ret.returned =>
        \/ hasSummary /\ ret.err = NoErr
        \/ ~hasSummary /\ ret.err # NoErr

\* Run has returned a runner's error after a first result had been merged
C1_Witness ==
    /\ ret.returned
    /\ received = 2
    /\ summary # NilSummary
    /\ ret.err # NoErr

\* C2: no runner passes the gate or issues a request before every setup has
\* returned nil; the start channel is closed at most once, only after the last
\* setup, and once it is closed every one of the workers exists and can go on.
C2_GateAfterAllSetups ==
    /\ \A i \in Runners :
          (pastGate(i) \/ issued[i] > 0) => (allSetupsOk /\ startClosed)
    /\ closeCount <= 1
    /\ startClosed <=> closeCount = 1
    /\ startClosed => allSetupsOk
    /\ startClosed => \A i \in Runners : wpc[i] # "idle"
    /\ (allSetupsOk /\ orchPC \notin {"insetup", "close"}) => startClosed
    /\ \A i \in Runners : (startClosed /\ wpc[i] = "gate") => ENABLED WorkerStart(i)

\* both runners of a two-connection benchmark have issued a request
C2_Witness ==
    /\ connections = 2
    /\ issued[0] > 0
    /\ issued[1] > 0

\* C3: setup is called on the runners in index order, one at a time; when the
\* setup of runner i fails, Run has returned that error and no Summary, no
\* setup was called after i, no teardown was called and no request was issued.
C3_SetupFailFast ==
    /\ \A k \in 1..Len(setupLog) : setupLog[k] = k - 1
    /\ \A i \in Runners :
          <<"setup", i>> \in raised =>
              /\ ret = returnErr(<<"setup", i>>)
              /\ orchPC = "returned"
              /\ Len(setupLog) = i + 1
              /\ teardownLog = <<>>
              /\ \A j \in Runners : issued[j] = 0 /\ ~pastGate(j)

\* the setup of the second runner failed, with the first runner's worker spawned
C3_Witness ==
    /\ connections = 2
    /\ <<"setup", 1>> \in raised
    /\ wpc[0] = "gate"

\* C4 as stated: when all setups succeeded and Run has returned, every worker
\* has deposited exactly one result and Run has received all of them.
C4_Original ==
    (allSetupsOk /\ ret.returned) =>
        /\ \A i \in Runners : deposited[i] = 1
        /\ received = connections

\* C4, amended: every worker deposits at most one result and its deposit is
\* never blocked (the queue holds connections results); once wg.Wait has
\* returned every worker has deposited exactly one; Run has received all of
\* them when it returns a Summary, and none is lost or duplicated.
C4_ResultsDeposited ==
    /\ \A i \in Runners :
          /\ deposited[i] <= 1
          /\ deposited[i] = 1 <=> wpc[i] \in {"done", "exit"}
          /\ wpc[i] = "send" => (Len(results) < connections /\ ENABLED Deposit(i))
    /\ Len(results) + received = SumTo(deposited, connections)
    /\ (allSetupsOk /\ orchPC \in {"teardown", "inteardown", "merge", "returned"}) =>
          \A i \in Runners : deposited[i] = 1
    /\ (ret.returned /\ hasSummary) => (received = connections /\ results = <<>>)

\* Run has returned a Summary made of the results of two runners
C4_Witness ==
    /\ ret.returned
    /\ hasSummary
    /\ connections = 2
    /\ received = 2

\* C5: the Summary Run returns holds the sum of the runners' request totals
\* and the largest of the runners' elapsed times.
C5_TotalsSumElapsedMax ==
    (ret.returned /\ hasSummary) =>
        /\ ret.summary.SuccessTotal = SumTo(successTotal, connections)
        /\ ret.summary.ErrorTotal = SumTo(errorTotal, connections)
        /\ ret.summary.TimeElapsed = MaxTo(elapsed, connections)

\* a Summary of two runners with different elapsed times, successes and errors
C5_Witness ==
    /\ ret.returned
    /\ hasSummary
    /\ connections = 2
    /\ elapsed[0] < elapsed[1]
    /\ successTotal[0] > 0
    /\ errorTotal[1] > 0

\* C6: the Summary Run returns has Connections equal to the effective
\* connection count (1 when 0 was passed) and RequestRate equal to the sum of
\* the runners' configured rates.
C6_ConnectionsAndRate ==
    (ret.returned /\ hasSummary) =>
        /\ ret.summary.Connections = (IF argConnections = 0 THEN 1 ELSE argConnections)
        /\ ret.summary.RequestRate = SumTo(requestRate, connections)

\* a Summary of two rate-limited runners
C6_Witness ==
    /\ ret.returned
    /\ hasSummary
    /\ argConnections = 2
    /\ requestRate[0] > 0

\* C7 as stated: the Summary's RequestRate is the requestRate passed to
\* NewBenchmark.
C7_Original ==
    (ret.returned /\ hasSummary) => ret.summary.RequestRate = argRate

\* C7, amended: the Summary's RequestRate is connections * (requestRate \div
\* connections): requestRate less its remainder by the connection count, so it
\* is requestRate exactly when the connection count divides requestRate.
C7_RateLessRemainder ==
    (ret.returned /\ hasSummary) =>
        /\ ret.summary.RequestRate = argRate - (argRate % connections)
        /\ ret.summary.RequestRate = argRate <=> argRate % connections = 0

\* a Summary whose RequestRate is below the requestRate that was passed
C7_Witness ==
    /\ ret.returned
    /\ hasSummary
    /\ argRate = 3
    /\ connections = 2
    /\ ret.summary.RequestRate = 2

\* C8: when the loop of any runner ended with an error, Run returns no Summary
\* and an error, whatever the other runners measured and wherever the failed
\* result stands in the queue; the error is one a runner returned (from its
\* loop, or from its teardown).
C8_FatalErrorAborts ==
    (ret.returned /\ \E i \in Runners : runErr[i] # NoErr) =>
        /\ ~hasSummary
        /\ ret.err # NoErr
        /\ ret.err \in raised
        /\ \/ \E i \in Runners : runErr[i] # NoErr /\ ret.err = runErr[i]
           \/ \E i \in Runners : ret.err = <<"teardown", i>>

\* Run read a good result with requests in it first and the failed one second
C8_Witness ==
    /\ ret.returned
    /\ connections = 2
    /\ received = 2
    /\ \E i \in Runners : runErr[i] = NoErr /\ successTotal[i] > 0
    /\ \E i \in Runners : runErr[i] # NoErr /\ ret.err = runErr[i]

\* requester.Request() of runner i returns an error in this step
failedRequestReturns(i) == failedReqs'[i] = failedReqs[i] + 1

C10_Original ==
    \A i \in Runners :
       (policy = "fatal" /\ failedReqs[i] > 0) =>
           /\ wpc[i] \in {"send", "done", "exit"}
           /\ issued[i] = successTotal[i] + 1
           /\ ret.returned => ret = returnErr(<<"request", i>>)

\* C10, amended: under the fatal policy the first failed request ends its
\* runner's loop: the runner issues no further request and its result carries
\* that request's error; Run returns no Summary and an error, which is that
\* request's error unless a teardown failed (Run returns the teardown error) or
\* the failed result of another runner was read from the queue first.
C10_FirstFailureEndsLoop ==
    \A i \in Runners :
       (policy = "fatal" /\ failedReqs[i] > 0) =>
           /\ failedReqs[i] = 1
           /\ runErr[i] = <<"request", i>>
           /\ wpc[i] \in {"send", "done", "exit"}
           /\ issued[i] = successTotal[i] + 1
           /\ ret.returned =>
                 /\ ~hasSummary
                 /\ \/ ret.err = <<"request", i>>
                    \/ \E j \in Runners : ret.err = <<"teardown", j>>
                    \/ \E j \in Runners \ {i} : runErr[j] # NoErr /\ ret.err = runErr[j]

\* Run returned the error of a request that failed after an earlier success
C10_Witness ==
    /\ policy = "fatal"
    /\ connections = 2
    /\ ret.returned
    /\ ret.err = <<"request", 1>>
    /\ successTotal[1] > 0
    /\ failedReqs[1] = 1

\* ---- teardown
\* C11 as stated: when all setups succeed, Run calls teardown on every runner
\* exactly once, in order, also after an earlier runner's teardown failed, and
\* the error it returns is the first teardown error.
C11_Original ==
    (ret.returned /\ allSetupsOk) =>
        /\ teardownLog = [k \in 1..connections |-> k - 1]
        /\ \A i \in Runners :
              (/\ <<"teardown", i>> \in raised
               /\ \A j \in 0..(i - 1) : <<"teardown", j>> \notin raised) =>
                  ret.err = <<"teardown", i>>

\* C12 as stated: a teardown failure after every runner has finished measuring
\* without error is returned by Run, and the caller still obtains the Summary
\* of the measurements collected in that run.
C12_Original ==
    (/\ ret.returned
     /\ \A i \in Runners : wpc[i] = "exit" /\ runErr[i] = NoErr
     /\ \E i \in Runners : <<"teardown", i>> \in raised) =>
        /\ \E i \in Runners : ret.err = <<"teardown", i>>
        /\ hasSummary

\* ---- the life of a connection runner
\* created until requester.Setup() returned nil, ready until the worker passes
\* the start gate, running while the worker is inside run*'s loop, finished once
\* the loop has returned, stopped once requester.Teardown() returned nil
lifecycle(i) ==
    IF i \in teardownOk THEN "stopped"
    ELSE IF wpc[i] \in {"loop", "req", "spin"} THEN "running"
    ELSE IF wpc[i] \in {"send", "done", "exit"} THEN "finished"
    ELSE IF i \in setupOk THEN "ready"
    ELSE "created"

lifecycleSteps ==
    {<<"created", "ready">>, <<"ready", "running">>, <<"running", "finished">>,
     <<"finished", "stopped">>}

leavesRunning(i) == lifecycle(i) = "running" /\ lifecycle(i)' # "running"

\* C13 as stated: a runner moves only created -> ready -> running -> stopped and
\* leaves running only through its own deadline check at the head of the loop.
C13_Original ==
    [][\A i \in Runners :
          /\ lifecycle(i)' # lifecycle(i) =>
                <<lifecycle(i), lifecycle(i)'>> \in lifecycleSteps
          /\ leavesRunning(i) => wpc[i] = "loop" /\ clk[i] >= duration]_vars

\* C13, amended: a runner moves only created -> ready -> running -> finished ->
\* stopped, and it leaves running only by a step of its own loop: the deadline
\* check at the head of an iteration, taken once the duration has passed and
\* returning no error, or the error return that follows a failed request (fatal
\* build) or a latency the recorder rejects.  Nothing outside the loop ends it.
C13_RunnerLifecycle ==
    [][\A i \in Runners :
          /\ lifecycle(i)' # lifecycle(i) =>
                <<lifecycle(i), lifecycle(i)'>> \in lifecycleSteps
          /\ leavesRunning(i) =>
                \/ /\ wpc[i] = "loop"
                   /\ clk[i] >= duration
                   /\ runErr'[i] = NoErr
                \/ /\ wpc[i] = "req"
                   /\ runErr'[i] \in {<<"request", i>>, <<"range", i>>}
                   /\ runErr'[i] = <<"request", i>> => policy = "fatal"]_vars

\* one runner stopped after its deadline check, the other after a failed request
C13_Witness ==
    /\ connections = 2
    /\ lifecycle(0) = "stopped" /\ runErr[0] = NoErr /\ issued[0] > 0
    /\ lifecycle(1) = "stopped" /\ runErr[1] = <<"request", 1>>

\* ---- the deadline
\* run* has returned nil: the loop ended at its deadline check
finishedNormally(i) == wpc[i] \in {"send", "done", "exit"} /\ runErr[i] = NoErr

\* C14 as stated: the deadline is tested only at the head of an iteration, and
\* for a runner that completes normally, in either loop, the reported elapsed
\* time is at most the duration plus the latency of one request.
C14_Original ==
    \A i \in Runners :
       /\ wpc[i] \in {"req", "spin"} => before[i] < duration
       /\ finishedNormally(i) => elapsed[i] <= duration + latency[i]

\* C14, amended: the deadline is tested only at the head of an iteration: a
\* request is begun only before the deadline and, once begun, it and the pacing
\* wait after it run to their end.  For a runner that completes normally the
\* reported elapsed time is less than the duration plus the latency of its
\* last request in the unthrottled loop, and less than the duration plus the
\* larger of that latency and expectedInterval in the rate-limited loop.
C14_ElapsedBound ==
    \A i \in Runners :
       /\ wpc[i] \in {"req", "spin"} => before[i] < duration
       /\ (finishedNormally(i) /\ issued[i] = 0) => elapsed[i] = 0
       /\ (finishedNormally(i) /\ issued[i] > 0) =>
             /\ before[i] < duration
             /\ startT[i] + elapsed[i] >= before[i] + latency[i]
             /\ elapsed[i] < duration + Max(latency[i], expectedInterval[i])
             /\ requestRate[i] = 0 => elapsed[i] < duration + latency[i]

\* a rate-limited runner whose pacing wait outlasted the deadline by more than
\* its last request's latency
C14_Witness ==
    \E i \in Runners :
       /\ finishedNormally(i)
       /\ requestRate[i] > 0
       /\ issued[i] > 0
       /\ elapsed[i] = before[i] + expectedInterval[i] - startT[i]
       /\ elapsed[i] > duration + latency[i]

\* ---- pacing
\* C15: in the rate-limited loop the start instants of two consecutive requests
\* of a runner are at least expectedInterval apart, and the iteration after a
\* request (its deadline check included) begins no earlier than expectedInterval
\* after that request's before.
C15_PacedRequests ==
    [][\A i \in Runners :
          requestRate[i] # 0 =>
             /\ (issued[i] > 0 /\ issued'[i] = issued[i] + 1) =>
                   before'[i] >= before[i] + expectedInterval[i]
             /\ (issued[i] > 0 /\ wpc[i] = "loop") =>
                   clk[i] >= before[i] + expectedInterval[i]]_vars

\* a second request begun exactly expectedInterval after the first, which took
\* less than that
C15_Witness ==
    \E i \in Runners :
       /\ requestRate[i] # 0
       /\ issued[i] = 2
       /\ wpc[i] = "req"
       /\ hist[i].uncorrectedSuccessHistogram[1] = 1
       /\ expectedInterval[i] > 1
       /\ before[i] = startT[i] + expectedInterval[i]

\* ---- recording
\* C16: in the rate-limited loop every completed request is recorded once with
\* correction into the corrected recorder of its outcome and once raw into the
\* uncorrected recorder of its outcome, then counted: between iterations the
\* total count of each uncorrected recorder equals its counter, the corrected
\* recorder holds every raw value too, and the fatal build counts no error.
C16_RateLimitedRecording ==
    \A i \in Runners :
       requestRate[i] # 0 =>
          /\ TotalCount(hist[i].uncorrectedSuccessHistogram) = successTotal[i]
          /\ TotalCount(hist[i].uncorrectedErrorHistogram) = errorTotal[i]
          /\ \A v \in HistValues :
                /\ hist[i].successHistogram[v] >= hist[i].uncorrectedSuccessHistogram[v]
                /\ hist[i].errorHistogram[v] >= hist[i].uncorrectedErrorHistogram[v]
          /\ successTotal[i] + errorTotal[i] <= issued[i]
          /\ wpc[i] \in {"loop", "spin"} => successTotal[i] + errorTotal[i] = issued[i]
          /\ policy = "fatal" => errorTotal[i] = 0

\* a rate-limited runner of the tracked build between iterations, one request
\* of each outcome recorded and counted, the success back-filled by correction
C16_Witness ==
    \E i \in Runners :
       /\ policy = "tracked"
       /\ requestRate[i] # 0
       /\ wpc[i] = "loop"
       /\ successTotal[i] = 1
       /\ errorTotal[i] = 1
       /\ TotalCount(hist[i].uncorrectedSuccessHistogram) = 1
       /\ TotalCount(hist[i].uncorrectedErrorHistogram) = 1
       /\ TotalCount(hist[i].successHistogram) = 2

\* C17: in the unthrottled loop (per-connection rate 0) there is no pacing wait
\* and no corrected recording: each request is recorded raw once into the
\* primary recorder of its outcome, the uncorrected recorders stay empty, the
\* primary recorder's total count equals its counter, and the next iteration
\* begins at the instant the request returned.
C17_UnthrottledRecording ==
    \A i \in Runners :
       requestRate[i] = 0 =>
          /\ wpc[i] # "spin"
          /\ hist[i].uncorrectedSuccessHistogram = EmptyHistogram
          /\ hist[i].uncorrectedErrorHistogram = EmptyHistogram
          /\ TotalCount(hist[i].successHistogram) = successTotal[i]
          /\ TotalCount(hist[i].errorHistogram) = errorTotal[i]
          /\ (wpc[i] = "loop" /\ issued[i] > 0) =>
                /\ clk[i] = before[i] + latency[i]
                /\ successTotal[i] + errorTotal[i] = issued[i]

\* an unthrottled runner that has entered its third iteration with one request
\* of each outcome recorded
C17_Witness ==
    \E i \in Runners :
       /\ requestRate[i] = 0
       /\ wpc[i] = "loop"
       /\ issued[i] = 2
       /\ TotalCount(hist[i].successHistogram) = 1
       /\ TotalCount(hist[i].errorHistogram) = 1
       /\ clk[i] < duration

\* ---- Run, called again
\* the requests of the present Run that returned nil, and those that failed
successesOfRun == SumTo([i \in Runners |-> issued[i] - failedReqs[i]], connections)

failuresOfRun == SumTo(failedReqs, connections)

runnerIsReset(i) ==
    /\ successTotal[i] = 0
    /\ errorTotal[i] = 0
    /\ hist[i] = EmptyRecorders

\* C18: setup resets every counter and every recorder of the runner before it
\* invokes the requester's Setup, so the Summary of each Run of a Benchmark
\* counts and holds the requests of that Run only, whatever an earlier Run
\* left in the runners; a failing requester Setup is returned by Run as it is.
C18_SetupResets ==
    /\ orchPC = "insetup" => runnerIsReset(idx)
    /\ \A i \in Runners :
          (wpc[i] = "gate" \/ (wpc[i] = "loop" /\ issued[i] = 0)) => runnerIsReset(i)
    /\ \A i \in Runners :
          pastGate(i) => successTotal[i] + errorTotal[i] <= issued[i]
    /\ hasSummary =>
          /\ ret.summary.SuccessTotal = successesOfRun
          /\ ret.summary.ErrorTotal = failuresOfRun
          /\ TotalCount(ret.summary.SuccessHistogram) >= successesOfRun
          /\ ret.summary.RequestRate = 0 =>
                TotalCount(ret.summary.SuccessHistogram) = successesOfRun
          /\ ret.summary.RequestRate # 0 =>
                TotalCount(ret.summary.UncorrectedSuccessHistogram) = successesOfRun
    /\ (ret.returned /\ \E i \in Runners : <<"setup", i>> \in raised) =>
          /\ ret = returnErr(<<"setup", Len(setupLog) - 1>>)
          /\ raised = {<<"setup", Len(setupLog) - 1>>}

\* the Summary of a second Run with fewer requests than the first Run issued
C18_Witness ==
    /\ rerun
    /\ hasSummary
    /\ connections = 2
    /\ prevIssued = 3
    /\ ret.summary.SuccessTotal = 1
    /\ ret.summary.ErrorTotal = 1

\* ---- NewBenchmark
\* C19: NewBenchmark takes connections 0 for 1, builds that many runners, gives
\* each the rate floor(requestRate / connections), and binds runner i to the
\* result of one call GetRequester(i) of its own, the calls made for
\* i = 0 .. connections-1 in ascending order.
C19_NewBenchmark ==
    /\ argConnections = 0 => connections = 1
    /\ argConnections # 0 => connections = argConnections
    /\ DOMAIN requestRate = 0..(connections - 1)
    /\ DOMAIN requester = 0..(connections - 1)
    /\ \A i \in Runners :
          /\ connections * requestRate[i] <= argRate
          /\ argRate < connections * (requestRate[i] + 1)
    /\ Len(getRequesterLog) = connections
    /\ \A k \in 1..(connections - 1) : getRequesterLog[k] < getRequesterLog[k + 1]
    /\ \A i \in Runners :
          /\ requester[i] \in 1..connections
          /\ getRequesterLog[requester[i]] = i
          /\ \A j \in Runners : requester[j] = requester[i] => j = i

\* two runners built for a rate of three, each bound to its own call
C19_Witness ==
    /\ argConnections = 2
    /\ argRate = 3
    /\ requestRate = [i \in {0, 1} |-> 1]
    /\ getRequesterLog = <<0, 1>>
    /\ requester[0] # requester[1]
    /\ orchPC = "setup"

\* C20 as stated: rate limiting is off exactly when NewBenchmark's requestRate
\* is zero: with a nonzero requestRate every runner runs the rate-limited loop
\* (record, then busy spin), with requestRate 0 every runner runs the
\* unthrottled loop.
C20_Original ==
    \A i \in Runners :
       pastGate(i) =>
          /\ argRate # 0 => requestRate[i] # 0 /\ afterRecord(i) = "spin"
          /\ argRate = 0 => requestRate[i] = 0 /\ afterRecord(i) = "loop"

\* ---- the requesters
\* C21 as stated: every Requester is owned by one runner: for two distinct
\* connection indexes the factory returns distinct objects, so within a Run no
\* Requester has Setup, Request or Teardown called for more than one runner;
\* of every factory, NOOPRequesterFactory too.
C21_Original ==
    \A i, j \in Runners :
       i # j =>
          /\ (\E m, n \in DOMAIN setupLog : setupLog[m] = i /\ setupLog[n] = j) =>
                instance[i] # instance[j]
          /\ (issued[i] > 0 /\ issued[j] > 0) => instance[i] # instance[j]
          /\ (\E m, n \in DOMAIN teardownLog :
                 teardownLog[m] = i /\ teardownLog[n] = j) =>
                instance[i] # instance[j]

\* ---- the recorder
called(op) == rec.op = op /\ rec.done

\* the samples of value x that the call added
added(x) == rec.out[x] - rec.h[x]

\* the samples a recorder holds at or below x, which its quantiles are read from
countAtOrBelow(h, x) == SumTo(h, x + 1)

\* C22: RecordCorrectedValue(v, interval) with v <= interval leaves the recorder
\* as RecordValue(v) does: one sample of v more and nothing else, hence the same
\* total count and the same count at or below every value.
C22_CorrectedAsRaw ==
    (called("RecordCorrectedValue") /\ rec.v <= rec.interval) =>
        /\ \A x \in RecorderRange : added(x) = (IF x = rec.v THEN 1 ELSE 0)
        /\ TotalCount(rec.out) = TotalCount(rec.h) + 1
        /\ rec.out = RecordValue(rec.h, rec.v)
        /\ \A x \in RecorderRange :
              countAtOrBelow(rec.out, x) = countAtOrBelow(RecordValue(rec.h, rec.v), x)

\* a corrected recording of a value equal to the interval, on a recorder that
\* held a sample of it
C22_Witness ==
    /\ called("RecordCorrectedValue")
    /\ rec.v = rec.interval
    /\ rec.v > 0
    /\ rec.h[rec.v] = 1
    /\ rec.out[rec.v] = 2

\* C23: for v > interval > 0 one RecordCorrectedValue(v, interval) adds
\* floor(v / interval) samples in all: v once and v - k*interval for k = 1, 2, ...
\* down to the last one that is at least interval; the largest value added is v.
C23_CorrectedSamples ==
    (called("RecordCorrectedValue") /\ rec.v > rec.interval /\ rec.interval > 0) =>
        /\ TotalCount(rec.out) = TotalCount(rec.h) + (rec.v \div rec.interval)
        /\ \A x \in RecorderRange :
              added(x) = (IF /\ x <= rec.v
                             /\ x >= rec.interval
                             /\ (rec.v - x) % rec.interval = 0
                          THEN 1 ELSE 0)
        /\ added(rec.v) = 1
        /\ \A x \in RecorderRange : x > rec.v => added(x) = 0

\* a value of five recorded with interval two: samples of 5 and 3 added
C23_Witness ==
    /\ called("RecordCorrectedValue")
    /\ rec.interval = 2
    /\ rec.v = 5
    /\ added(5) = 1
    /\ added(3) = 1
    /\ added(1) = 0
    /\ TotalCount(rec.out) = TotalCount(rec.h) + 2

\* C24 as stated: RecordCorrectedValue(v, interval) with v = 5 * interval adds at
\* least 5 samples beside the true one, at multiples of interval, and the
\* largest value recorded is v.
C24_Original ==
    (called("RecordCorrectedValue") /\ rec.interval > 0 /\ rec.v = 5 * rec.interval) =>
        /\ TotalCount(rec.out) - TotalCount(rec.h) - 1 >= 5
        /\ \A x \in RecorderRange : added(x) > 0 => x % rec.interval = 0
        /\ \A x \in RecorderRange : x > rec.v => added(x) = 0

\* C24, amended: RecordCorrectedValue(v, interval) with v = 5 * interval adds 4
\* samples beside the true one, 5 in all: one at each of interval, 2 * interval,
\* 3 * interval, 4 * interval and v; the largest value recorded is v.
C24_FiveIntervals ==
    (called("RecordCorrectedValue") /\ rec.interval > 0 /\ rec.v = 5 * rec.interval) =>
        /\ TotalCount(rec.out) - TotalCount(rec.h) - 1 = 4
        /\ \A k \in 1..5 : added(k * rec.interval) = 1
        /\ \A x \in RecorderRange : added(x) > 0 => x % rec.interval = 0
        /\ \A x \in RecorderRange : x > rec.v => added(x) = 0
        /\ added(0) = 0

\* a value of five intervals recorded into a recorder that held two samples
C24_Witness ==
    /\ called("RecordCorrectedValue")
    /\ rec.interval > 0
    /\ rec.v = 5 * rec.interval
    /\ TotalCount(rec.h) = 2
    /\ TotalCount(rec.out) = 7

RECURSIVE RecordTimes(_, _, _)
\* h after n calls RecordValue(v)
RecordTimes(h, v, n) == IF n = 0 THEN h ELSE RecordTimes(RecordValue(h, v), v, n - 1)

RECURSIVE RecordSamplesBelow(_, _, _)
\* h after every sample of o of a value below x has been recorded into it
RecordSamplesBelow(h, o, x) ==
    IF x = 0 THEN h
    ELSE RecordTimes(RecordSamplesBelow(h, o, x - 1), x - 1, o[x - 1])

\* C25: the recorders' Merge is additive, commutative and associative: the total
\* count of h.Merge(o) is the sum of the two total counts, its counts are those
\* of a recorder into which the samples of both were recorded one by one, and
\* the order of the merges does not matter.
C25_MergeAlgebra ==
    called("Merge") =>
        /\ TotalCount(rec.out) = TotalCount(rec.h) + TotalCount(rec.o)
        /\ rec.out = RecordSamplesBelow(rec.h, rec.o, MaxRecorded + 1)
        /\ rec.out = RecordSamplesBelow(RecordSamplesBelow(EmptyRecorder, rec.o,
                                                           MaxRecorded + 1),
                                        rec.h, MaxRecorded + 1)
        /\ rec.out = HistogramMerge(rec.o, rec.h)
        /\ HistogramMerge(rec.out, rec.p) =
              HistogramMerge(rec.h, HistogramMerge(rec.o, rec.p))

\* two recorders of two samples each, one value in common, merged
C25_Witness ==
    /\ called("Merge")
    /\ TotalCount(rec.h) = 2
    /\ TotalCount(rec.o) = 2
    /\ rec.h # rec.o
    /\ \E x \in RecorderRange : rec.h[x] = 1 /\ rec.o[x] = 1 /\ rec.out[x] = 2
    /\ TotalCount(rec.p) > 0

\* ---- C26: a Summary is a snapshot
\* C26 (as stated): the histograms of a Summary that was produced keep the
\* counts they had when it was produced, whatever is recorded into or reset in
\* the Benchmark's recorders afterwards.  The single-connection Summary()
\* copies the Histogram structs, whose counts slices stay shared with the
\* live recorders, so the next Run's Reset and recordings show through.
C26_Original ==
    \A k \in 1..Len(single.summaries) :
        single.summaries[k].taken = sharedCounts(single)

\* ---- C27: throughput
\* requests of runner i per second of its elapsed time
throughputOfRunner(i) == perSecond(successTotal[i] + errorTotal[i], elapsed[i])

RECURSIVE sumOfThroughputs(_)
\* the throughputs of runners 0..n-1, added up
sumOfThroughputs(n) ==
    IF n = 0 THEN perSecond(0, 1)
    ELSE addFloat(sumOfThroughputs(n - 1), throughputOfRunner(n - 1))

\* every partial Summary in the results channel has Throughput = its total
\* requests / its elapsed seconds
partialThroughputs ==
    \A k \in 1..Len(results) :
        LET s == results[k].summary
        IN  s.Throughput = perSecond(s.SuccessTotal + s.ErrorTotal, s.TimeElapsed)

\* C27 (as stated): each partial Summary's Throughput is its total requests
\* divided by its elapsed seconds, and the merged Summary's Throughput is the
\* sum of the runners' totals divided by the largest elapsed time in seconds.
C27_Original ==
    /\ partialThroughputs
    /\ (ret.returned /\ hasSummary) =>
          ret.summary.Throughput =
             perSecond(SumTo(successTotal, connections) + SumTo(errorTotal, connections),
                       MaxTo(elapsed, connections))

\* C27 (amended): each partial Summary's Throughput is its total requests
\* divided by its elapsed seconds, and the merged Summary's Throughput is the
\* sum of the runners' throughputs.
C27_SummedThroughput ==
    /\ partialThroughputs
    /\ (ret.returned /\ hasSummary) =>
          ret.summary.Throughput = sumOfThroughputs(connections)

\* a merged Summary of two runners that both issued requests and whose elapsed
\* times differ
C27_Witness ==
    /\ ret.returned
    /\ hasSummary
    /\ connections = 2
    /\ \A i \in Runners : successTotal[i] + errorTotal[i] > 0
    /\ elapsed[0] # elapsed[1]
    /\ ret.summary.Throughput = sumOfThroughputs(connections)
    /\ ret.summary.Throughput #
          perSecond(SumTo(successTotal, connections) + SumTo(errorTotal, connections),
                    MaxTo(elapsed, connections))

\* ---- C28: the uncorrected distribution file
\* C28 (as stated): GenerateLatencyDistribution, when it returns without an
\* error on the Summary of a Benchmark created with a nonzero requestRate,
\* has written the file and its twin prefixed uncorrected_; for requestRate 0
\* it has written the file only.  A requestRate below the connection count
\* gives every runner rate 0 and the Summary RequestRate 0: no twin file.
C28_Original ==
    (files.called /\ ~files.err) =>
        files.written = IF argRate > 0 THEN {"file", "uncorrected_file"}
                        ELSE {"file"}

\* ---- C29: a latency the recorder cannot hold
\* in this step runner i's request returns and its latency, which the loop
\* measures (the fatal policy returns a failed request's error before it looks
\* at the clock), is above the recorder's range
latencyOutOfRange(i) ==
    /\ wpc[i] = "req"
    /\ wpc'[i] # "req"
    /\ RecordValueFails(clk'[i] - clk[i])
    /\ ~(policy = "fatal" /\ failedRequestReturns(i))

\* the recording fails: nothing is recorded or counted and the loop ends with
\* the range error
rangeErrorEndsLoop ==
    \A i \in Runners :
        latencyOutOfRange(i) =>
            /\ runErr'[i] = <<"range", i>>
            /\ hist'[i] = hist[i]
            /\ successTotal'[i] = successTotal[i]
            /\ errorTotal'[i] = errorTotal[i]
            /\ elapsed'[i] = 0
            /\ wpc'[i] = "send"

hasRangeError(i) == runErr[i] = <<"range", i>>

returnedCalls(kind, okSet) ==
    Cardinality(okSet) + Cardinality({e \in raised : e[1] = kind})

\* setup and teardown calls that have been made and have not returned
callsInProgress ==
    (Len(setupLog) - returnedCalls("setup", setupOk))
    + (Len(teardownLog) - returnedCalls("teardown", teardownOk))

\* C30: at most one setup or teardown call is in progress at any time; while
\* one is, no runner is in its loop, so no request is in flight; and the
\* teardowns and the merge begin only after every worker has finished its loop,
\* deposited its result and called wg.Done.
C30_OnlyMeasurementConcurrent ==
    /\ callsInProgress \in {0, 1}
    /\ callsInProgress = 1 =>
          \A i \in Runners : wpc[i] \notin {"loop", "req", "spin"}
    /\ (teardownLog # <<>> \/ received > 0 \/ orchPC = "merge") =>
          /\ wg = 0
          /\ \A i \in Runners : wpc[i] = "exit" /\ deposited[i] = 1

\* the second runner's teardown is in progress after both runners issued
\* requests concurrently
C30_Witness ==
    /\ connections = 2
    /\ orchPC = "inteardown"
    /\ callsInProgress = 1
    /\ teardownLog = <<0, 1>>
    /\ \A i \in Runners : issued[i] > 0 /\ wpc[i] = "exit"

\* ---- C31: Run returns
\* the runners a Benchmark can have
AllRunners == UNION {0..(effectiveConnections(c) - 1) : c \in ConnectionArgs}

\* the Go scheduler lets every goroutine that can take a step take one, and
\* every call of the requester returns: Run's goroutine and each worker's are
\* weakly fair
SpecLive ==
    /\ Init
    /\ [][Next]_vars
    /\ WF_vars(Orchestrator)
    /\ \A i \in AllRunners : WF_vars(i \in Runners /\ Worker(i))

\* Run returns
RunReturns == <>ret.returned

\* C31 (as stated): when every call of the requester returns, Run returns in
\* the end, and it has then joined every worker it started: each one passed
\* the gate, ran to its deadline or an error and deposited its result; and Run
\* never returns a Summary while a request is in flight.  A failed setup of a
\* later runner makes Run return with the earlier workers still at the gate.
C31_Original ==
    /\ RunReturns
    /\ [](ret.returned =>
             \A i \in Runners : wpc[i] # "idle" => (wpc[i] = "exit" /\ deposited[i] = 1))
    /\ []((ret.returned /\ hasSummary) => \A i \in Runners : wpc[i] # "req")

\* ---- C32: a runner's state belongs to its worker
\* the counters, the recorders and the elapsed time of runner i
runnerState(i) == <<successTotal[i], errorTotal[i], elapsed[i], hist[i]>>

\* some worker is past the gate and has not yet called wg.Done
measuring == \E j \in Runners : wpc[j] \in {"loop", "req", "spin", "send", "done"}

\* this step is one of runner i's own worker, inside its loop
stepOfWorker(i) ==
    /\ wpc[i] \in {"loop", "req"}
    /\ wpc'[i] # wpc[i]
    /\ orchPC' = orchPC
    /\ \A j \in Runners \ {i} : wpc'[j] = wpc[j]

\* this step is one of Run's own goroutine
stepOfRun == orchPC' # orchPC /\ wpc' = wpc

\* C32: the counters, recorders and elapsed time of a runner change only in a
\* step of its own worker, which changes no other runner's, or in a step of
\* Run that is taken while no worker is between the gate and wg.Done: before
\* the start channel is closed, or after every worker has exited.
C32_RunnerStateOwned ==
    [][\A i \in Runners :
          runnerState(i)' # runnerState(i) =>
              \/ /\ stepOfWorker(i)
                 /\ \A j \in Runners \ {i} : runnerState(j)' = runnerState(j)
              \/ /\ stepOfRun
                 /\ ~measuring
                 /\ ~startClosed \/ \A j \in Runners : wpc[j] = "exit"]_vars

\* in a second Run, whose setups reset what the first had counted, both
\* workers are in their loops and each has counted a request
C32_Witness ==
    /\ rerun
    /\ prevIssued > 0
    /\ connections = 2
    /\ \A i \in Runners : wpc[i] \in {"loop", "req", "spin"}
    /\ \A i \in Runners : successTotal[i] + errorTotal[i] > 0
    /\ hist[0] # hist[1]

\* ---- C33: the expected interval
\* C33: a runner's expected interval is floor(one second / rate) when its
\* rate is above 0 and 0 when it is 0; it is at least 1 ns for every rate up
\* to one request per nanosecond; above that it is 0, and the rate-limited
\* loop then never waits after a request (the next iteration begins at the
\* instant the request returned) and synthesizes no corrected sample (the
\* corrected and the uncorrected recorders hold the same counts).
C33_ExpectedInterval ==
    \A i \in Runners :
        /\ requestRate[i] = 0 => expectedInterval[i] = 0
        /\ requestRate[i] > 0 =>
              /\ expectedInterval[i] * requestRate[i] <= OneSecondNS
              /\ (expectedInterval[i] + 1) * requestRate[i] > OneSecondNS
        /\ requestRate[i] \in 1..OneSecondNS => expectedInterval[i] >= 1
        /\ requestRate[i] > OneSecondNS =>
              /\ expectedInterval[i] = 0
              /\ hist[i].successHistogram = hist[i].uncorrectedSuccessHistogram
              /\ hist[i].errorHistogram = hist[i].uncorrectedErrorHistogram
              /\ (wpc[i] \in {"loop", "spin"} /\ issued[i] > 0) =>
                    clk[i] = before[i] + latency[i]

\* a runner asked for more than a request per nanosecond has issued two
\* requests back to back, the first of which took two ticks
C33_Witness ==
    \E i \in Runners :
        /\ requestRate[i] > OneSecondNS
        /\ issued[i] = 2
        /\ wpc[i] = "loop"
        /\ hist[i].successHistogram[maxRecordableLatencyNS] = 1
        /\ TotalCount(hist[i].uncorrectedSuccessHistogram) = 2

\* ---- C34: the single-connection Run tears down what it set up
\* Run of the single-connection Benchmark has returned
singleRunReturned == single.pc = "idle" /\ single.runs > 0

\* C34: in the single-connection Run, Teardown is called exactly once when
\* Setup succeeded, also when the loop ended with an error, and never when
\* Setup failed; when the loop and Teardown both fail, Run returns Teardown's
\* error.
C34_SingleTeardown ==
    /\ single.teardownCalls <= 1
    /\ single.teardownCalls = 1 => single.setupOk
    /\ singleRunReturned =>
          /\ single.setupOk => single.teardownCalls = 1
          /\ ~single.setupOk =>
                single.teardownCalls = 0 /\ single.ret = <<"setup", 0>>
          /\ (single.err # NoErr /\ single.teardownErr # NoErr) =>
                single.ret = single.teardownErr
          /\ (single.setupOk /\ single.teardownErr = NoErr) =>
                single.ret = single.err

\* a request failed after one was counted, Teardown failed too, and Run
\* returned Teardown's error
C34_Witness ==
    /\ singleRunReturned
    /\ single.totalRequests > 0
    /\ single.err = <<"request", 0>>
    /\ single.teardownCalls = 1
    /\ single.teardownErr = <<"teardown", 0>>
    /\ single.ret = <<"teardown", 0>>

\* ---- C35: a failed request stops its own connection only
\* C35 (as stated): under the fatal policy, once a request of some runner has
\* failed and Run has returned, every worker has finished, the runners without
\* an error of their own ran to their deadlines, and teardown was called on
\* every runner, in order.  The teardown loop stops at the first teardown that
\* fails, so the later runners are not torn down.
C35_Original ==
    (/\ policy = "fatal"
     /\ ret.returned
     /\ \E i \in Runners : failedReqs[i] > 0) =>
        /\ ret.err # NoErr
        /\ \A j \in Runners : wpc[j] = "exit" /\ deposited[j] = 1
        /\ \A j \in Runners : runErr[j] = NoErr => clk[j] >= duration
        /\ teardownLog = [k \in 1..connections |-> k - 1]

\* ---- C36: a teardown error hides a measurement error
\* C36: when the loop of some runner ended with an error and the teardown of
\* some runner failed, Run returns the teardown error and no Summary: the
\* teardowns come before the first result is read, so the measurement error is
\* not what Run returns and no result was read.
C36_TeardownErrorFirst ==
    \A i, j \in Runners :
        (/\ ret.returned
         /\ runErr[i] # NoErr
         /\ <<"teardown", j>> \in raised) =>
            /\ ret = returnErr(<<"teardown", j>>)
            /\ ret.err # runErr[i]
            /\ received = 0

\* the loop of runner 0 ended with an error, its teardown went well and the
\* teardown of runner 1 failed
C36_Witness ==
    /\ connections = 2
    /\ ret.returned
    /\ runErr[0] # NoErr
    /\ teardownLog = <<0, 1>>
    /\ raised = {runErr[0], <<"teardown", 1>>}
    /\ ret.err = <<"teardown", 1>>

\* ---- C37: a failed setup leaves the earlier workers at the gate
\* C37: when the setup of a runner i > 0 has failed, the start channel is not
\* closed and never will be (Run has returned), the workers of runners 0..i-1
\* are blocked on it: they have issued no request and deposited no result and
\* the WaitGroup still counts them; and the requesters of runners 0..i-1, whose
\* setup succeeded, have not been torn down.
C37_WorkersLeftAtGate ==
    \A i \in Runners :
        (i > 0 /\ <<"setup", i>> \in raised) =>
            /\ ret.returned
            /\ orchPC = "returned"
            /\ ~startClosed
            /\ closeCount = 0
            /\ results = <<>>
            /\ wg = i
            /\ teardownLog = <<>>
            /\ \A j \in 0..(i - 1) :
                  /\ j \in setupOk
                  /\ wpc[j] = "gate"
                  /\ issued[j] = 0
                  /\ deposited[j] = 0

\* Run has returned the error of the second runner's setup
C37_Witness ==
    /\ connections = 2
    /\ ret = returnErr(<<"setup", 1>>)
    /\ setupLog = <<0, 1>>
    /\ setupOk = {0}
    /\ wg = 1

\* ---- C38: the order in which the results arrive
\* the counts of value v in recorder name, added up over the runners 0..n-1
RECURSIVE bucketSum(_, _, _)
bucketSum(name, v, n) ==
    IF n = 0 THEN 0 ELSE hist[n - 1][name][v] + bucketSum(name, v, n - 1)

\* C38: whatever the order in which the workers deposited their results, the
\* Summary Run returns has Connections = the connection count, RequestRate =
\* the sum of the runners' rates, totals = the sums of the runners' totals,
\* TimeElapsed = the largest elapsed time and, in every recorder, bucket counts
\* = the sums of the runners' bucket counts: a function of the runners alone.
C38_OrderIndependent ==
    (ret.returned /\ hasSummary) =>
        /\ ret.summary.Connections = connections
        /\ ret.summary.RequestRate = SumTo(requestRate, connections)
        /\ ret.summary.SuccessTotal = SumTo(successTotal, connections)
        /\ ret.summary.ErrorTotal = SumTo(errorTotal, connections)
        /\ ret.summary.TimeElapsed = MaxTo(elapsed, connections)
        /\ \A v \in HistValues :
              /\ ret.summary.SuccessHistogram[v] =
                    bucketSum("successHistogram", v, connections)
              /\ ret.summary.UncorrectedSuccessHistogram[v] =
                    bucketSum("uncorrectedSuccessHistogram", v, connections)
              /\ ret.summary.ErrorHistogram[v] =
                    bucketSum("errorHistogram", v, connections)
              /\ ret.summary.UncorrectedErrorHistogram[v] =
                    bucketSum("uncorrectedErrorHistogram", v, connections)

\* Run has read the result of runner 1 first: that of runner 0, which counted
\* other requests over another elapsed time, arrived second and is merged next
C38_Witness ==
    /\ connections = 2
    /\ orchPC = "merge"
    /\ idx = 1
    /\ summary = summarize(1)
    /\ results = <<runResult(0)>>
    /\ runErr[0] = NoErr
    /\ successTotal[0] # successTotal[1]
    /\ elapsed[0] # elapsed[1]
    /\ hist[0] # hist[1]

\* ---- C39: the elapsed time a runner reports
\* C39 (as stated): a runner that completes normally reports an elapsed time
\* of at least its duration; a runner whose loop ended with an error reports 0.
C39_Original ==
    \A i \in Runners :
        /\ finishedNormally(i) => elapsed[i] >= duration
        /\ runErr[i] # NoErr => elapsed[i] = 0

\* C39 (amended): a runner that completes normally stops at or after its
\* deadline: the elapsed time it reports, counted from the start instant it
\* reads after it has set the timer, is at least the duration less the time
\* between the two; a runner whose loop ended with an error reports 0.
C39_ElapsedFromStart ==
    \A i \in Runners :
        /\ finishedNormally(i) => elapsed[i] >= duration - startT[i]
        /\ runErr[i] # NoErr => elapsed[i] = 0

\* a runner that read its start instant a tick after it set the timer, issued
\* a request and stopped exactly at the deadline
C39_Witness ==
    \E i \in Runners :
        /\ finishedNormally(i)
        /\ issued[i] > 0
        /\ startT[i] > 0
        /\ startT[i] + elapsed[i] = duration
        /\ elapsed[i] < duration

\* ---- C40: corrected against uncorrected, and the rate that is kept
\* the corrected recorder of a pair holds at least the samples of the
\* uncorrected one
correctedAtLeast(p) == TotalCount(p.c) >= TotalCount(p.u)

\* the corrected and the uncorrected recorder of a pair hold as many samples
sameCount(p) == TotalCount(p.c) = TotalCount(p.u)

\* the runner has returned from its loop without an error
pacedCompleted == rec.pc = "returned" /\ rec.err = NoErr

\* C40 (as stated): in the rate-limited loop the corrected recorder of an
\* outcome always holds at least as many samples as the uncorrected one, and
\* as many exactly when no recorded latency was above expectedInterval; a
\* runner that completes normally with expectedInterval I > 0 and elapsed time
\* E has issued at most E / I requests.
C40_Original ==
    /\ \A p \in {rec.good, rec.failed} :
          /\ correctedAtLeast(p)
          /\ sameCount(p) <=>
                \A v \in RecorderRange : p.u[v] > 0 => v <= rec.interval
    /\ (pacedCompleted /\ rec.interval > 0) =>
          rec.issued * rec.interval <= rec.elapsed

\* C40 (amended): ... and as many exactly when expectedInterval is 0 or no
\* recorded latency reached twice expectedInterval (a latency between one and
\* two intervals leaves no room for a missed request) ...
C40_CorrectedAndPaced ==
    /\ \A p \in {rec.good, rec.failed} :
          /\ correctedAtLeast(p)
          /\ sameCount(p) <=>
                \/ rec.interval = 0
                \/ \A v \in RecorderRange : p.u[v] > 0 => v < 2 * rec.interval
    /\ (pacedCompleted /\ rec.interval > 0) =>
          rec.issued * rec.interval <= rec.elapsed

\* a runner with an interval of 2 ticks completed after a request of 3 ticks,
\* which the corrected recorder holds once
C40_Witness ==
    /\ pacedCompleted
    /\ rec.interval = 2
    /\ rec.good.u[3] = 1
    /\ TotalCount(rec.good.c) = 1
    /\ rec.issued * rec.interval <= rec.elapsed

====
